---- MODULE Spec2Model ----
(***************************************************************************)
(* ParamEditor (salesup-test-task/src/App.tsx): a React class component    *)
(* that keeps an array of {paramId, value} records in its state, merges    *)
(* edits into it (replace in place / append) and hands the current model   *)
(* to its host through getModel.                                           *)
(*                                                                         *)
(* JavaScript arrays are objects with identity, so they live in a heap and *)
(* the program's variables hold references (indices into the heap).  The   *)
(* {paramId, value} records are modelled as values: the program only ever  *)
(* builds fresh records (lines 271 and 274) and never assigns to a field   *)
(* of an existing one.                                                     *)
(***************************************************************************)
EXTENDS Integers, Sequences, FiniteSets, TLC

\* ---- bounds ----
MaxId == 3          \* paramIds range over 1..MaxId
MaxInit == 2        \* longest paramValues array of a caller-supplied model
MaxUpdates == 2     \* handleParamChange calls in one run
MaxExports == 2     \* getModel calls in one run
MaxMutations == 1   \* writes a host makes to the models it was given
MaxClicks == 3      \* clicks on the buttons of the test application
MaxHarnessEdits == 1 \* edits made in a run of the test application

Ids == 1..MaxId
Vals == {"", "a"}

\* The entries a host writes into a model it was given
CallerEntries == {[paramId |-> 1, value |-> "x"]}

\* Sequences over S of length at most n
SeqUpTo(S, n) == UNION {[1..k -> S] : k \in 0..n}

\* The initial models a host passes: entries with any paramIds, repeated
\* ones included, the first with a value an edit can also write
seedValue(k) == IF k = 1 THEN "a" ELSE "b"

SeedModels ==
  {[k \in 1..Len(ids) |-> [paramId |-> ids[k], value |-> seedValue(k)]] :
     ids \in SeqUpTo(Ids, MaxInit)}

\* The parameter definitions of the two hosts in the source (names in Latin
\* letters)
testParameters ==
  <<[id |-> 1, name |-> "Naznachenie", type |-> "string"],
    [id |-> 2, name |-> "Dlina", type |-> "string"],
    [id |-> 3, name |-> "Material", type |-> "string"]>>

exampleParameters ==
  <<[id |-> 1, name |-> "Naznachenie", type |-> "string"],
    [id |-> 2, name |-> "Dlina", type |-> "string"]>>

VARIABLES
  heap,       \* the arrays: heap[r] is the content of the array with reference r
  props,      \* this.props: params, and model = [paramValues: ref, colors: ref]
  state,      \* this.state.paramValues: a reference
  pending,    \* updaters handed to setState and not yet applied by React
  exported,   \* the models returned by getModel so far, as their callers hold them
  rendered,   \* the values handed to the ParamInput elements by the last render
  mutations,  \* the number of writes the host has made to exported models
  testsResult,\* App's testsResult state; null is <<>>, a model m is <<m>>
  clicks,     \* the number of button clicks that re-rendered App
  written,    \* history: the (paramId, value) pairs applied so far, in order
  model0      \* history: the content of the caller's model at construction

vars == <<heap, props, state, pending, exported, rendered, mutations,
          testsResult, clicks, written, model0>>

\* ---- Array.prototype helpers, as the code uses them ----

\* findIndex: 0-based index of the first entry with this paramId, -1 if none
RECURSIVE findIndexFrom(_, _, _)
findIndexFrom(arr, paramId, i) ==
  IF i >= Len(arr) THEN -1
  ELSE IF arr[i + 1].paramId = paramId THEN i
  ELSE findIndexFrom(arr, paramId, i + 1)

findIndex(arr, paramId) == findIndexFrom(arr, paramId, 0)

\* The two hosts: the test application, and the usage example given a
\* non-empty colour list
Hosts ==
  {[params |-> testParameters, colors |-> <<>>],
   [params |-> exampleParameters, colors |-> <<[id |-> 1, name |-> "red"]>>]}

\* ---- ParamEditor ----

\* constructor that also seeds an empty value for every parameter
\* definition the model has no entry for
constructorFillDefaults(h, p) ==
  LET missing == SelectSeq(p.params,
                   LAMBDA d : findIndex(h[p.model.paramValues], d.id) = -1)
      defaults == [k \in 1..Len(missing) |-> [paramId |-> missing[k].id, value |-> ""]]
  IN [heap |-> Append(h, h[p.model.paramValues] \o defaults), state |-> Len(h) + 1]

\* constructor without the spread: the state holds the caller's array itself
constructorNoCopy(h, p) ==
  [heap |-> h, state |-> p.model.paramValues]

\* constructor: paramValues: [...props.model.paramValues], a new array
constructor(h, p) ==
  [heap |-> Append(h, h[p.model.paramValues]), state |-> Len(h) + 1]

\* updater without the copy: it writes into prevState.paramValues itself
updaterInPlace(h, prevState, paramId, value) ==
  LET indexExistingValue == findIndex(h[prevState], paramId)
      result == IF indexExistingValue # -1
                THEN [h[prevState] EXCEPT ![indexExistingValue + 1] =
                        [paramId |-> paramId, value |-> value]]
                ELSE Append(h[prevState], [paramId |-> paramId, value |-> value])
  IN [heap |-> [h EXCEPT ![prevState] = result], state |-> prevState]

\* updater that replaces the found entry and pushes the new one as well
updaterReplaceAndPush(h, prevState, paramId, value) ==
  LET indexExistingValue == findIndex(h[prevState], paramId)
      updatedValues == h[prevState]
      replaced == IF indexExistingValue # -1
                  THEN [updatedValues EXCEPT ![indexExistingValue + 1] =
                          [paramId |-> paramId, value |-> value]]
                  ELSE updatedValues
  IN [heap |-> Append(h, Append(replaced, [paramId |-> paramId, value |-> value])),
      state |-> Len(h) + 1]

\* updater that treats an empty value as a removal of the entry
updaterDeleteEmpty(h, prevState, paramId, value) ==
  LET indexExistingValue == findIndex(h[prevState], paramId)
      updatedValues == h[prevState]
      result == IF value = ""
                THEN SelectSeq(updatedValues, LAMBDA e : e.paramId # paramId)
                ELSE IF indexExistingValue # -1
                THEN [updatedValues EXCEPT ![indexExistingValue + 1] =
                        [paramId |-> paramId, value |-> value]]
                ELSE Append(updatedValues, [paramId |-> paramId, value |-> value])
  IN [heap |-> Append(h, result), state |-> Len(h) + 1]

\* updater without the lookup: every edit is pushed
updaterAlwaysPush(h, prevState, paramId, value) ==
  [heap |-> Append(h, Append(h[prevState], [paramId |-> paramId, value |-> value])),
   state |-> Len(h) + 1]

\* updater with unshift in place of push: a new entry goes to the front
updaterUnshift(h, prevState, paramId, value) ==
  LET indexExistingValue == findIndex(h[prevState], paramId)
      updatedValues == h[prevState]
      result == IF indexExistingValue # -1
                THEN [updatedValues EXCEPT ![indexExistingValue + 1] =
                        [paramId |-> paramId, value |-> value]]
                ELSE <<[paramId |-> paramId, value |-> value]>> \o updatedValues
  IN [heap |-> Append(h, result), state |-> Len(h) + 1]

\* The updater handleParamChange passes to setState, applied to prevState:
\* it copies the array, then replaces at the found index or pushes
updater(h, prevState, paramId, value) ==
  LET indexExistingValue == findIndex(h[prevState], paramId)
      updatedValues == h[prevState]
      result == IF indexExistingValue # -1
                THEN [updatedValues EXCEPT ![indexExistingValue + 1] =
                        [paramId |-> paramId, value |-> value]]
                ELSE Append(updatedValues, [paramId |-> paramId, value |-> value])
  IN [heap |-> Append(h, result), state |-> Len(h) + 1]

\* setState with an object computed from this.state in place of an updater:
\* every queued edit starts from the committed state and the last one wins
RECURSIVE processUpdateQueueStale(_, _, _)
processUpdateQueueStale(h, st, queue) ==
  IF queue = <<>> THEN [heap |-> h, state |-> st]
  ELSE LET r == updater(h, st, Head(queue).paramId, Head(queue).value)
       IN IF Len(queue) = 1 THEN r
          ELSE processUpdateQueueStale(r.heap, st, Tail(queue))

\* React applies the queued updaters in the order they were queued, each to
\* the result of the one before
RECURSIVE processUpdateQueue(_, _, _)
processUpdateQueue(h, st, queue) ==
  IF queue = <<>> THEN [heap |-> h, state |-> st]
  ELSE LET r == updater(h, st, Head(queue).paramId, Head(queue).value)
       IN processUpdateQueue(r.heap, r.state, Tail(queue))

\* getModel that fills colors from the wrong field of the model
getModelWrongColors(p, st) ==
  [paramValues |-> st, colors |-> p.model.paramValues]

\* getModel: {...this.props.model, paramValues: this.state.paramValues}
getModel(p, st) ==
  [paramValues |-> st, colors |-> p.model.colors]

\* getParamValue with findLast in place of find
getParamValueLast(arr, paramId) ==
  LET matches == {i \in 1..Len(arr) : arr[i].paramId = paramId}
  IN IF matches # {}
     THEN arr[CHOOSE i \in matches : \A j \in matches : j <= i].value
     ELSE ""

\* getParamValue: value of the first entry with this paramId, "" if none
getParamValue(arr, paramId) ==
  LET i == findIndex(arr, paramId)
  IN IF i # -1 THEN arr[i + 1].value ELSE ""

\* render: one ParamInput per parameter definition, with its current value
render(p, arr) ==
  [i \in 1..Len(p.params) |-> getParamValue(arr, p.params[i].id)]

\* ---- initial states: a host constructs the editor from its props ----

Init ==
  \E pv \in SeedModels, host \in Hosts :
    LET p == [params |-> host.params, model |-> [paramValues |-> 1, colors |-> 2]]
        cl == host.colors
        c == constructor(<<pv, cl>>, p)
    IN /\ props = p
       /\ heap = c.heap
       /\ state = c.state
       /\ pending = <<>>
       /\ exported = <<>>
       /\ rendered = render(p, c.heap[c.state])
       /\ mutations = 0
       /\ testsResult = [initial |-> <<>>, afterEdit |-> <<>>,
                         initialVsAfterEdit |-> FALSE, hasNewParam |-> FALSE]
       /\ clicks = 0
       /\ written = <<>>
       /\ model0 = [paramValues |-> pv, colors |-> cl]

\* ---- actions ----

\* An input's change event: handleParamChange queues its updater
handleParamChange(paramId, value) ==
  /\ Len(written) + Len(pending) < MaxUpdates
  /\ pending' = Append(pending, [paramId |-> paramId, value |-> value])
  /\ UNCHANGED <<heap, props, state, exported, rendered, mutations, written, model0>>
  /\ UNCHANGED <<testsResult, clicks>>

\* React flushes the queue, commits the new state and renders again
flushUpdates ==
  /\ pending # <<>>
  /\ LET r == processUpdateQueue(heap, state, pending)
     IN /\ heap' = r.heap
        /\ state' = r.state
        /\ rendered' = render(props, r.heap[r.state])
  /\ written' = written \o pending
  /\ pending' = <<>>
  /\ UNCHANGED <<props, exported, mutations, model0, testsResult, clicks>>

\* A getModel that sorts this.state.paramValues (Array.prototype.sort works
\* in place) before it returns it
callGetModelSorting ==
  /\ Len(exported) < MaxExports
  /\ heap' = [heap EXCEPT ![state] =
                SortSeq(heap[state], LAMBDA x, y : x.paramId < y.paramId)]
  /\ exported' = Append(exported,
                   [model |-> getModel(props, state),
                    epoch |-> Len(written),
                    atCall |-> heap'[state]])
  /\ UNCHANGED <<props, state, pending, rendered, mutations, written, model0>>
  /\ UNCHANGED <<testsResult, clicks>>

\* The host calls getModel through its ref and keeps the result
callGetModel ==
  /\ Len(exported) < MaxExports
  /\ exported' = Append(exported,
                   [model |-> getModel(props, state),
                    epoch |-> Len(written),
                    atCall |-> heap[state]])
  /\ UNCHANGED <<heap, props, state, pending, rendered, mutations, written, model0>>
  /\ UNCHANGED <<testsResult, clicks>>

\* A caller that writes to the paramValues array of a model getModel gave it:
\* push, pop, or assignment to an element
callerMutate(i, entry) ==
  /\ i \in 1..Len(exported)
  /\ mutations < MaxMutations
  /\ mutations' = mutations + 1
  /\ LET ref == exported[i].model.paramValues
         arr == heap[ref]
     IN \/ heap' = [heap EXCEPT ![ref] = Append(arr, entry)]
        \/ /\ arr # <<>>
           /\ heap' = [heap EXCEPT ![ref] = SubSeq(arr, 1, Len(arr) - 1)]
        \/ \E k \in 1..Len(arr) :
             /\ arr[k] # entry
             /\ heap' = [heap EXCEPT ![ref] = [arr EXCEPT ![k] = entry]]
  /\ UNCHANGED <<props, state, pending, exported, rendered, written, model0>>
  /\ UNCHANGED <<testsResult, clicks>>

\* ---- App, the test application ----

\* JSON.stringify of a model: the text lists the entries of paramValues and
\* of colors with their fields, in order; it is read from the arrays as they
\* are when it is called
JSONstringify(h, m) ==
  <<[k \in 1..Len(h[m.paramValues]) |->
       <<h[m.paramValues][k].paramId, h[m.paramValues][k].value>>],
    [k \in 1..Len(h[m.colors]) |-> <<h[m.colors][k].id, h[m.colors][k].name>>]>>

\* A comparison of the two objects themselves: getModel builds a new object
\* at every call, so they always differ
modelChangedByReference(h, initial, updatedModel) == TRUE

\* modelChanged of checkAfterEdit; initial is null (<<>>) or <<model>>
modelChanged(h, initial, updatedModel) ==
  IF initial = <<>> THEN TRUE
  ELSE JSONstringify(h, initial[1].model) # JSONstringify(h, updatedModel)

\* newParameterAdded of checkAfterEdit
newParameterAdded(h, updatedModel) ==
  \E k \in 1..Len(h[updatedModel.paramValues]) :
    /\ h[updatedModel.paramValues][k].paramId = 3
    /\ h[updatedModel.paramValues][k].value # ""

\* A ParamEditor that takes its state from the props again when it is
\* rendered with new ones
receivePropsReset(h, st, p) ==
  [heap |-> Append(h, h[p.model.paramValues]), state |-> Len(h) + 1]

\* ParamEditor rendered again with new props: it has no
\* getDerivedStateFromProps and no componentDidUpdate, the state stays
receiveProps(h, st, p) ==
  [heap |-> h, state |-> st]

\* setTestsResult makes App render again: testModel is a new object with new
\* arrays of the same content, handed to the mounted ParamEditor
rerenderApp ==
  LET p == [params |-> props.params,
            model |-> [paramValues |-> Len(heap) + 1, colors |-> Len(heap) + 2]]
      r == receiveProps(heap \o <<model0.paramValues, model0.colors>>, state, p)
  IN /\ props' = p
     /\ heap' = r.heap
     /\ state' = r.state
     /\ rendered' = render(p, r.heap[r.state])
     /\ clicks' = clicks + 1

\* The model getModel returns now, with the history of the call
heldModel ==
  [model |-> getModel(props, state), epoch |-> Len(written), atCall |-> heap[state]]

\* Button "Zapustit proverku" of App; a click comes after React has flushed
\* the edits of the events before it
startInitialTests ==
  /\ props.params = testParameters
  /\ pending = <<>>
  /\ clicks < MaxClicks
  /\ testsResult' = [testsResult EXCEPT !.initial = <<heldModel>>]
  /\ rerenderApp
  /\ UNCHANGED <<pending, exported, mutations, written, model0>>

\* checkAfterEdit without the test of testsResult.initial
checkAfterEditNoGuard ==
  /\ props.params = testParameters
  /\ pending = <<>>
  /\ clicks < MaxClicks
  /\ testsResult' =
       [testsResult EXCEPT
          !.afterEdit = <<heldModel>>,
          !.initialVsAfterEdit =
             modelChanged(heap, testsResult.initial, heldModel.model),
          !.hasNewParam = newParameterAdded(heap, heldModel.model)]
  /\ rerenderApp
  /\ UNCHANGED <<pending, exported, mutations, written, model0>>

\* Button "Proverit posle izmenenij"
checkAfterEdit ==
  /\ props.params = testParameters
  /\ pending = <<>>
  /\ clicks < MaxClicks
  /\ IF testsResult.initial = <<>>
     THEN UNCHANGED vars
     ELSE /\ testsResult' =
               [testsResult EXCEPT
                  !.afterEdit = <<heldModel>>,
                  !.initialVsAfterEdit =
                     modelChanged(heap, testsResult.initial, heldModel.model),
                  !.hasNewParam = newParameterAdded(heap, heldModel.model)]
          /\ rerenderApp
          /\ UNCHANGED <<pending, exported, mutations, written, model0>>

Next ==
  \/ \E paramId \in Ids, value \in Vals : handleParamChange(paramId, value)
  \/ flushUpdates
  \/ callGetModel

Spec == Init /\ [][Next]_vars

\* The editor together with a host that writes to the models it was given
NextCaller ==
  \/ Next
  \/ \E i \in 1..MaxExports, entry \in CallerEntries : callerMutate(i, entry)

SpecCaller == Init /\ [][NextCaller]_vars

\* An edit in an input of the editor inside the test application
editInApp(paramId, value) ==
  /\ Len(written) + Len(pending) < MaxHarnessEdits
  /\ handleParamChange(paramId, value)

\* The editor inside the test application and its two buttons
NextHarness ==
  \/ \E paramId \in Ids, value \in Vals : editInApp(paramId, value)
  \/ flushUpdates
  \/ startInitialTests
  \/ checkAfterEdit

SpecHarness == Init /\ [][NextHarness]_vars

\* ---- vocabulary of the properties ----

\* The paramIds of an array, in order
idsOf(arr) == [i \in 1..Len(arr) |-> arr[i].paramId]

\* The set of elements of a sequence
Range(f) == {f[i] : i \in 1..Len(f)}

\* The positions of paramId in an array
positions(arr, paramId) == {i \in 1..Len(arr) : arr[i].paramId = paramId}

\* The value of the last write to paramId in a non-empty history of writes
lastWritten(hist, paramId) ==
  LET last == CHOOSE i \in positions(hist, paramId) :
                \A j \in positions(hist, paramId) : j <= i
  IN hist[last].value

\* Where paramId was first seen: in the initial model, or else in the writes
firstSeen(paramId) ==
  LET seen == idsOf(model0.paramValues) \o idsOf(written)
  IN CHOOSE i \in 1..Len(seen) :
       /\ seen[i] = paramId
       /\ \A j \in 1..(i - 1) : seen[j] # paramId

\* The live store
store == heap[state]

\* A step that applies the queued updates
isFlush == pending # <<>> /\ pending' = <<>>

\* The array after the first i updates of the queue being flushed
afterUpdate(i) == IF i = 0 THEN heap[state] ELSE heap'[Len(heap) + i]

\* ---- C1 ----
\* C1: after any sequence of applied updates the store holds exactly one
\* entry for each id written, that entry carries the last value written for
\* the id, and the entries stand in the order in which their ids were first
\* seen (initial model first, then first writes).
C1_StoreMatchesWrites ==
  /\ \A id \in Range(idsOf(written)) :
       /\ Cardinality(positions(store, id)) = 1
       /\ \A i \in positions(store, id) : store[i].value = lastWritten(written, id)
  /\ \A i, j \in 1..Len(store) :
       i < j => firstSeen(store[i].paramId) <= firstSeen(store[j].paramId)

\* ---- C2 ----
\* C2: in every reachable state no two entries of the store share a paramId.
C2_UniqueParamIds ==
  \A i, j \in 1..Len(store) : store[i].paramId = store[j].paramId => i = j

\* ---- C3 ----
\* C3: an update whose paramId the store already holds replaces the entry at
\* its index: the length is unchanged, the entry at that index becomes
\* {paramId, value}, and the entries at all other indices are unchanged.
C3_ReplaceInPlace ==
  [][isFlush =>
       /\ heap'[state'] = afterUpdate(Len(pending))
       /\ \A i \in 1..Len(pending) :
            LET prev == afterUpdate(i - 1)
                new == afterUpdate(i)
            IN positions(prev, pending[i].paramId) # {} =>
                 /\ Len(new) = Len(prev)
                 /\ \E k \in positions(prev, pending[i].paramId) :
                      /\ new[k] = [paramId |-> pending[i].paramId,
                                   value |-> pending[i].value]
                      /\ \A j \in (1..Len(prev)) \ {k} : new[j] = prev[j]]_vars

\* An update replaced the value of an entry of the initial model
C3_Witness ==
  /\ written # <<>>
  /\ Len(store) = Len(model0.paramValues)
  /\ store # model0.paramValues

\* ---- C4 ----
\* C4: an update whose paramId the store does not hold appends
\* {paramId, value} as the last entry and leaves the previous entries as
\* they were, for every paramId, also one that no parameter definition
\* carries; no update is dropped.
C4_AppendNew ==
  [][isFlush =>
       /\ heap'[state'] = afterUpdate(Len(pending))
       /\ \A i \in 1..Len(pending) :
            LET prev == afterUpdate(i - 1)
                new == afterUpdate(i)
            IN /\ positions(new, pending[i].paramId) # {}
               /\ positions(prev, pending[i].paramId) = {} =>
                    new = Append(prev, [paramId |-> pending[i].paramId,
                                        value |-> pending[i].value])]_vars

\* An id that no parameter definition carries was appended behind the
\* entries of a non-empty initial model
C4_Witness ==
  /\ written # <<>>
  /\ model0.paramValues # <<>>
  /\ Len(store) = Len(model0.paramValues) + 1
  /\ store[Len(store)] = written[Len(written)]
  /\ \A k \in 1..Len(props.params) :
       props.params[k].id # store[Len(store)].paramId

\* ---- C5 ----
\* C5: getParamValue(id) gives v right after the update (id, v) was applied,
\* whatever the store held before; and it gives "" for an id that is neither
\* in the initial model nor was ever written.
C5_ReadAfterUpdate ==
  /\ [][isFlush =>
          \A i \in 1..Len(pending) :
            getParamValue(afterUpdate(i), pending[i].paramId) = pending[i].value]_vars
  /\ [](\A id \in Ids :
          (id \notin Range(idsOf(model0.paramValues)) /\ id \notin Range(idsOf(written)))
            => getParamValue(store, id) = "")

\* A non-empty value was written over an entry and is read back, while
\* another id is still unknown to the store and reads as ""
C5_Witness ==
  /\ written # <<>>
  /\ written[Len(written)].value # ""
  /\ written[Len(written)].paramId \in Range(idsOf(model0.paramValues))
  /\ getParamValue(store, written[Len(written)].paramId) = written[Len(written)].value
  /\ \E id \in Ids :
       /\ id \notin Range(idsOf(model0.paramValues))
       /\ id \notin Range(idsOf(written))
       /\ getParamValue(store, id) = ""

\* ---- C6 ----
\* C6: a write (push, pop, element assignment) of the caller to the
\* paramValues of a model getModel returned leaves the live store, what
\* getParamValue gives afterwards and what getModel gives afterwards as
\* they were.
C6_NoSharedStorage ==
  [][mutations' = mutations + 1 =>
       /\ heap'[state'] = heap[state]
       /\ \A id \in Ids :
            getParamValue(heap'[state'], id) = getParamValue(heap[state], id)
       /\ heap'[getModel(props', state').paramValues]
            = heap[getModel(props, state).paramValues]]_vars

\* ---- C7 ----
\* C7: the paramValues of every model getModel returned stay what the store
\* held at the moment of the call, whatever updates are applied afterwards.
C7_SnapshotStable ==
  \A i \in 1..Len(exported) :
    heap[exported[i].model.paramValues] = exported[i].atCall

\* A model was returned, updates were applied after it, and the store has
\* moved on from what the model holds
C7_Witness ==
  \E i \in 1..Len(exported) :
    /\ exported[i].epoch < Len(written)
    /\ store # exported[i].atCall
    /\ exported[i].atCall # <<>>

\* ---- C8 ----
\* C8: the store is a copy, not the caller's array, and the caller's
\* model.paramValues is as it was at construction after any updates.
C8_CallerModelUntouched ==
  /\ state # props.model.paramValues
  /\ heap[props.model.paramValues] = model0.paramValues

\* Updates were applied to a store seeded from a non-empty model and the
\* store differs from the caller's array
C8_Witness ==
  /\ written # <<>>
  /\ model0.paramValues # <<>>
  /\ store # heap[props.model.paramValues]

\* ---- C9 ----
\* C9: the colors of every model getModel returned are the original model's
\* colors array, and that array holds what it held at construction.
C9_ColorsPassThrough ==
  /\ heap[props.model.colors] = model0.colors
  /\ \A i \in 1..Len(exported) :
       /\ exported[i].model.colors = props.model.colors
       /\ heap[exported[i].model.colors] = model0.colors

\* A model with a non-empty colour list was exported after an update
C9_Witness ==
  /\ model0.colors # <<>>
  /\ \E i \in 1..Len(exported) : exported[i].epoch > 0

\* ---- C10 ----
\* C10: two getModel calls with no update applied between them return
\* structurally equal models, and a getModel call changes neither the store
\* nor the queue of updates.
C10_ExportIdempotent ==
  /\ [](\A i, j \in 1..Len(exported) :
          exported[i].epoch = exported[j].epoch =>
            /\ heap[exported[i].model.paramValues]
                 = heap[exported[j].model.paramValues]
            /\ heap[exported[i].model.colors] = heap[exported[j].model.colors])
  /\ [][Len(exported') > Len(exported) =>
          /\ state' = state
          /\ heap' = heap
          /\ pending' = pending]_vars

\* Two models were exported one after the other after an update
C10_Witness ==
  /\ Len(exported) >= 2
  /\ exported[1].epoch = exported[2].epoch
  /\ exported[1].epoch > 0

\* ---- C12 ----
\* The merge of one edit into an array of entries, as the specification
\* words it: replace the value of the first entry with the id, else append
mergeEdit(arr, edit) ==
  IF positions(arr, edit.paramId) = {}
  THEN Append(arr, [paramId |-> edit.paramId, value |-> edit.value])
  ELSE LET k == CHOOSE i \in positions(arr, edit.paramId) :
                  \A j \in positions(arr, edit.paramId) : i <= j
       IN [i \in 1..Len(arr) |->
             IF i = k THEN [paramId |-> edit.paramId, value |-> edit.value]
             ELSE arr[i]]

\* The edits applied one after the other, each to the result of the one before
RECURSIVE applyEdits(_, _)
applyEdits(arr, edits) ==
  IF edits = <<>> THEN arr
  ELSE applyEdits(mergeEdit(arr, Head(edits)), Tail(edits))

\* C12: no update is lost: the edits are applied in the order issued, each
\* to the result of the one before, also when several are queued before the
\* state is committed; the store is the sequential application of them all.
C12_NoLostUpdate ==
  /\ [](store = applyEdits(model0.paramValues, written))
  /\ [][isFlush =>
          /\ heap'[state'] = applyEdits(heap[state], pending)
          /\ written' = written \o pending]_vars

\* Two edits of the same id with different values are queued and not yet
\* committed
C12_Witness ==
  /\ Len(pending) >= 2
  /\ pending[1].paramId = pending[2].paramId
  /\ pending[1].value # pending[2].value

\* ---- C13 ----
\* C13: the paramValues getModel returns are at every call the result of
\* applying a whole prefix of the issued edits, in order, to the initial
\* store; no edit is seen half applied.
C13_ExportSeesWholePrefix ==
  \A i \in 1..Len(exported) :
    \E k \in 0..Len(written) :
      /\ exported[i].atCall = applyEdits(model0.paramValues, SubSeq(written, 1, k))
      /\ heap[exported[i].model.paramValues] = exported[i].atCall

\* getModel was called after an edit was applied and while another one was
\* queued
C13_Witness ==
  /\ pending # <<>>
  /\ \E i \in 1..Len(exported) :
       /\ exported[i].epoch = Len(written)
       /\ exported[i].epoch > 0

\* ---- C15 ----
\* C15: a parameter definition whose id the initial model has no entry for
\* has no entry in the store until the first update with its id is applied,
\* rendering its empty value included; from that update on it has exactly
\* one.
C15_AbsentUntilFirstEdit ==
  \A k \in 1..Len(props.params) :
    LET id == props.params[k].id
    IN id \notin Range(idsOf(model0.paramValues)) =>
         /\ id \notin Range(idsOf(written)) =>
              (positions(store, id) = {} /\ rendered[k] = "")
         /\ id \in Range(idsOf(written)) =>
              Cardinality(positions(store, id)) = 1

\* One parameter without an initial value was edited and has its entry,
\* another one is still absent and rendered empty
C15_Witness ==
  \E k1, k2 \in 1..Len(props.params) :
    /\ props.params[k1].id \notin Range(idsOf(model0.paramValues))
    /\ props.params[k2].id \notin Range(idsOf(model0.paramValues))
    /\ props.params[k1].id \in Range(idsOf(written))
    /\ Cardinality(positions(store, props.params[k1].id)) = 1
    /\ props.params[k2].id \notin Range(idsOf(written))
    /\ positions(store, props.params[k2].id) = {}

\* ---- C16 ----
\* C16: the store only grows: no step shortens it or takes a paramId out of
\* it; an update with the empty value keeps the entry of a present id and
\* appends an entry with the empty value for an absent one.
C16_StoreOnlyGrows ==
  [][/\ Len(heap'[state']) >= Len(heap[state])
     /\ Range(idsOf(heap[state])) \subseteq Range(idsOf(heap'[state']))
     /\ isFlush =>
          \A i \in 1..Len(pending) :
            LET prev == afterUpdate(i - 1)
                new == afterUpdate(i)
            IN /\ Len(new) >= Len(prev)
               /\ pending[i].value = "" =>
                    /\ positions(prev, pending[i].paramId) # {} =>
                         /\ Len(new) = Len(prev)
                         /\ idsOf(new) = idsOf(prev)
                    /\ positions(prev, pending[i].paramId) = {} =>
                         new = Append(prev, [paramId |-> pending[i].paramId,
                                             value |-> ""])]_vars

\* The empty value was written to an id of the initial model, whose entry is
\* still there, and to an absent id, whose entry was appended
C16_Witness ==
  /\ Len(written) >= 2
  /\ written[1].value = ""
  /\ written[2].value = ""
  /\ written[1].paramId \in Range(idsOf(model0.paramValues))
  /\ written[2].paramId \notin Range(idsOf(model0.paramValues))
  /\ positions(store, written[1].paramId) # {}
  /\ store[Len(store)] = [paramId |-> written[2].paramId, value |-> ""]

\* ---- C11 ----
\* The case the comparison of checkAfterEdit is about: afterEdit was taken
\* exactly one applied update after initial
oneUpdateBetween ==
  /\ testsResult.initial # <<>>
  /\ testsResult.afterEdit # <<>>
  /\ testsResult.afterEdit[1].epoch = testsResult.initial[1].epoch + 1

\* That one update wrote the value the first entry with its id already had
sameValueWritten ==
  LET E0 == testsResult.initial[1].atCall
      edit == written[testsResult.afterEdit[1].epoch]
  IN /\ positions(E0, edit.paramId) # {}
     /\ \E k \in positions(E0, edit.paramId) :
          /\ \A j \in positions(E0, edit.paramId) : k <= j
          /\ E0[k].value = edit.value

\* C11 as claimed: the model exported before and the model exported after
\* exactly one update are never structurally equal, so the harness reports a
\* change.
C11_ChangeDetected ==
  oneUpdateBetween => testsResult.initialVsAfterEdit = TRUE

\* C11 as amended: the two models differ, and the harness reports a change,
\* whenever the update did not write the value that the first entry with its
\* id already had; when it did, the two models are structurally equal.
C11_ChangeDetectedUnlessSameValue ==
  oneUpdateBetween =>
    IF sameValueWritten
    THEN testsResult.initial[1].atCall = testsResult.afterEdit[1].atCall
    ELSE /\ testsResult.initialVsAfterEdit = TRUE
         /\ testsResult.initial[1].atCall # testsResult.afterEdit[1].atCall

\* One update that changed a value lies between the two snapshots and the
\* harness reports the change
C11_Witness ==
  /\ oneUpdateBetween
  /\ ~sameValueWritten
  /\ testsResult.initialVsAfterEdit = TRUE
  /\ testsResult.initial[1].atCall # <<>>

\* ---- C14 ----
\* C14: the store is seeded once, from the model at construction, and only
\* the application of updates changes it: getModel, rendering, and App
\* rendering the editor again with a new model object leave it as it is.
C14_OnlyUpdateMutatesStore ==
  /\ [](written = <<>> => store = model0.paramValues)
  /\ [][~isFlush => (state' = state /\ heap'[state'] = heap[state])]_vars

\* The editor was given a new model object after an edit, and the store
\* still holds the edit
C14_Witness ==
  /\ clicks > 0
  /\ written # <<>>
  /\ props.model.paramValues # 1
  /\ store # heap[props.model.paramValues]
  /\ testsResult.initial # <<>>
  /\ testsResult.initial[1].epoch > 0

\* ---- C17 ----
\* C17: afterEdit is only ever set when initial is set; while initial is
\* null no step changes afterEdit or the two verdicts; and a step that sets
\* initial (startInitialTests) leaves afterEdit and the two verdicts alone.
C17_HarnessOrdering ==
  /\ [](testsResult.afterEdit # <<>> => testsResult.initial # <<>>)
  /\ [][testsResult.initial = <<>> =>
          /\ testsResult'.afterEdit = testsResult.afterEdit
          /\ testsResult'.initialVsAfterEdit = testsResult.initialVsAfterEdit
          /\ testsResult'.hasNewParam = testsResult.hasNewParam]_vars
  /\ [][testsResult'.initial # testsResult.initial =>
          /\ testsResult'.afterEdit = testsResult.afterEdit
          /\ testsResult'.initialVsAfterEdit = testsResult.initialVsAfterEdit
          /\ testsResult'.hasNewParam = testsResult.hasNewParam]_vars

\* Both snapshots were taken, the verdicts were set, and startInitialTests
\* was clicked again afterwards
C17_Witness ==
  /\ testsResult.initial # <<>>
  /\ testsResult.afterEdit # <<>>
  /\ testsResult.hasNewParam
  /\ testsResult.initialVsAfterEdit
  /\ testsResult.initial[1].model.colors > testsResult.afterEdit[1].model.colors

====
